---- MODULE Spec2Model ----
(***************************************************************************)
(* CommunityHub backend: the authorization middleware (verifyAuth,         *)
(* verifyAdmin and the unused variant authenticateUser / requireAdmin),    *)
(* the auth, resident and event controllers, and the calls they make on    *)
(* the identity provider and on the 'users' / 'events' collections.        *)
(*                                                                         *)
(* One action is one HTTP request handled from the first middleware to     *)
(* the response (requests one at a time), or one administrative /          *)
(* identity-provider operation.  `req` is the request just handled and     *)
(* `resp` the response to it, until the response has been sent.            *)
(*                                                                         *)
(* RSVP and cancel requests are also modelled with their database read and *)
(* write as separate steps (`calls`), and the web client's AuthProvider    *)
(* with every await of its sign-in listener as a step (`client`).          *)
(***************************************************************************)
EXTENDS Integers, Sequences, FiniteSets, TLC

VARIABLES env, session, claimRole, users, events, content, req, resp,
          calls,    \* RSVP / cancel requests between their read and their write
          client,   \* the AuthProvider of the web client
          backend   \* what config/firebase-admin exports as auth and db

vars == <<env, session, claimRole, users, events, content, req, resp, calls, client,
          backend>>

(***************************************************************************)
(* Bounds and value sets                                                   *)
(***************************************************************************)
NumUsers == 2
UIDs == 1..NumUsers            \* identities known to the identity provider
DevUid == 0                    \* 'dev-user-123', the development mock user
AutoId == NumUsers + 1         \* the id db.collection(..).add() generates
\* the ids add() generates for requests that are under way together
AutoIds == (NumUsers + 1)..(2 * NumUsers)

Envs == {"development", "production", "unset"}   \* process.env.NODE_ENV

\* role: 'resident' | 'admin' | 'super_admin' | 'security'
Roles == {"resident", "admin", "super_admin", "security"}

(***************************************************************************)
(* Request-scoped identity context (Express Request.user)                  *)
(***************************************************************************)
NoUser == [present |-> FALSE, uid |-> DevUid, role |-> ""]

ReqUser(uid, role) == [present |-> TRUE, uid |-> uid, role |-> role]

(***************************************************************************)
(* Authorization header of a request.  hdr: the header is absent, present  *)
(* without the 'Bearer ' prefix, or 'Bearer <token>'.  tok: the token is   *)
(* a token of identity uid ("jwt": the one the provider issued last, or an *)
(* older one when the identity holds no valid token), a string starting    *)
(* with 'simulated_token_', or any other string.                           *)
(***************************************************************************)
NoCred == [hdr |-> "absent", tok |-> "", uid |-> DevUid]

Creds ==
    {NoCred, [hdr |-> "other", tok |-> "", uid |-> DevUid]}
    \cup {[hdr |-> "bearer", tok |-> t, uid |-> DevUid] : t \in {"garbage", "simulated"}}
    \cup {[hdr |-> "bearer", tok |-> "jwt", uid |-> u] : u \in UIDs}

(***************************************************************************)
(* Request body fields ("" is an absent, empty or otherwise falsy field)   *)
(***************************************************************************)
FieldVals == {"", "a"}

\* email: NoEmail when the field is missing, u for the address of identity u,
\* AutoId for an address no identity has.  maxAttendees: Undefined when missing.
NoEmail == 0
Undefined == -1

\* requests with no header, or with the token of an identity
TokenCreds == {NoCred} \cup {[hdr |-> "bearer", tok |-> "jwt", uid |-> u] : u \in UIDs}

NoBody == [email |-> NoEmail, uid |-> DevUid, name |-> "", phoneNumber |-> "",
           flatNumber |-> "", blockNumber |-> "", role |-> "", title |-> "",
           maxAttendees |-> Undefined]

NoReq == [route |-> "", cred |-> NoCred, id |-> DevUid, body |-> NoBody]

Request(route, c, id, body) == [route |-> route, cred |-> c, id |-> id, body |-> body]

(***************************************************************************)
(* Responses.  json: the body was written by res.json; success, message   *)
(* and data: the body has success: true, a message field, a data field    *)
(* (null included).  verifier / handler record whether auth.verifyIdToken and    *)
(* the route handler were invoked; user is req.user when the chain ended;  *)
(* token is the data.token field of the auth endpoints.                    *)
(***************************************************************************)
NoResp == [status |-> 0, json |-> FALSE, success |-> FALSE, message |-> FALSE,
           data |-> FALSE, verifier |-> FALSE, handler |-> FALSE, user |-> NoUser,
           token |-> ""]

\* res.status(code).json({ success: false, message }) of the middleware
Reject(status, verifier, user) ==
    [status |-> status, json |-> TRUE, success |-> FALSE, message |-> TRUE, data |-> FALSE,
     verifier |-> verifier, handler |-> FALSE, user |-> user, token |-> ""]

errorResponse(statusCode, g) ==
    [status |-> statusCode, json |-> TRUE, success |-> FALSE, message |-> TRUE, data |-> FALSE,
     verifier |-> g.verifier, handler |-> TRUE, user |-> g.user, token |-> ""]

successResponse(statusCode, g, token) ==
    [status |-> statusCode, json |-> TRUE, success |-> TRUE, message |-> TRUE, data |-> TRUE,
     verifier |-> g.verifier, handler |-> TRUE, user |-> g.user, token |-> token]

(***************************************************************************)
(* Identity provider: auth.verifyIdToken(token)                            *)
(***************************************************************************)
\* mockData.users: 'admin-user-id' and 'resident-user-id'
MockAdminUid == 2 * NumUsers + 1
MockResidentUid == 2 * NumUsers + 2
MockUids == {MockAdminUid, MockResidentUid}

\* a bearer token that is the customToken ('admin-token', 'resident-token')
\* or the uid ('admin-user-id', 'resident-user-id') of a mock user
MockCreds ==
    {[hdr |-> "bearer", tok |-> t, uid |-> u] : t \in {"customToken", "uid"}, u \in MockUids}

\* mockAuth.verifyIdToken: the decoded token has no role field
mockVerifyIdToken(c) ==
    IF c.tok \in {"customToken", "uid"} /\ c.uid \in MockUids
    THEN [ok |-> TRUE, uid |-> c.uid, role |-> ""]
    ELSE [ok |-> FALSE, uid |-> DevUid, role |-> ""]

verifyIdToken(c) ==
    IF backend = "mock" THEN mockVerifyIdToken(c)
    ELSE IF c.tok = "jwt" /\ session[c.uid].state = "valid"
    THEN [ok |-> TRUE, uid |-> c.uid, role |-> session[c.uid].role]
    ELSE [ok |-> FALSE, uid |-> DevUid, role |-> ""]

(***************************************************************************)
(* middleware/auth: verifyAuth and verifyAdmin (the gates the routes use)  *)
(***************************************************************************)
\* verifyAuth without the 'Bearer ' prefix check
verifyAuthNoHeaderCheck(c) ==
    LET decodedToken == verifyIdToken(c) IN
    IF decodedToken.ok
    THEN [next |-> TRUE, status |-> 0, verifier |-> TRUE,
          user |-> ReqUser(decodedToken.uid,
                           IF decodedToken.role # "" THEN decodedToken.role ELSE "user")]
    ELSE [next |-> FALSE, status |-> 403, verifier |-> TRUE, user |-> NoUser]

\* verifyAuth with the simulated-token branch not tied to NODE_ENV
verifyAuthBypassAnyEnv(c) ==
    IF c.hdr # "bearer"
    THEN [next |-> FALSE, status |-> 401, verifier |-> FALSE, user |-> NoUser]
    ELSE IF c.tok = "simulated"
    THEN [next |-> TRUE, status |-> 0, verifier |-> FALSE,
          user |-> ReqUser(DevUid, "admin")]
    ELSE LET decodedToken == verifyIdToken(c) IN
         IF decodedToken.ok
         THEN [next |-> TRUE, status |-> 0, verifier |-> TRUE,
               user |-> ReqUser(decodedToken.uid,
                                IF decodedToken.role # "" THEN decodedToken.role
                                                          ELSE "user")]
         ELSE [next |-> FALSE, status |-> 403, verifier |-> TRUE, user |-> NoUser]

verifyAuth(c) ==
    IF c.hdr # "bearer"
    THEN [next |-> FALSE, status |-> 401, verifier |-> FALSE, user |-> NoUser]
    ELSE IF env = "development" /\ c.tok = "simulated"
    THEN [next |-> TRUE, status |-> 0, verifier |-> FALSE,
          user |-> ReqUser(DevUid, "admin")]
    ELSE LET decodedToken == verifyIdToken(c) IN
         IF decodedToken.ok
         THEN [next |-> TRUE, status |-> 0, verifier |-> TRUE,
               user |-> ReqUser(decodedToken.uid,
                                IF decodedToken.role # "" THEN decodedToken.role
                                                          ELSE "user")]
         ELSE [next |-> FALSE, status |-> 403, verifier |-> TRUE, user |-> NoUser]

\* verifyAdmin written as `if (req.user && req.user.role !== 'admin')`
verifyAdminOpenWithoutUser(user) ==
    IF user.present /\ user.role # "admin" THEN [next |-> FALSE, status |-> 403]
    ELSE [next |-> TRUE, status |-> 0]

verifyAdmin(user) ==
    IF ~user.present THEN [next |-> FALSE, status |-> 401]
    ELSE IF user.role # "admin" THEN [next |-> FALSE, status |-> 403]
    ELSE [next |-> TRUE, status |-> 0]

(***************************************************************************)
(* The second middleware file: authenticateUser and requireAdmin           *)
(***************************************************************************)
authenticateUser(c) ==
    IF c.hdr # "bearer"
    THEN [next |-> FALSE, status |-> 401, verifier |-> FALSE, user |-> NoUser]
    ELSE LET decodedToken == verifyIdToken(c) IN
         IF decodedToken.ok
         THEN [next |-> TRUE, status |-> 0, verifier |-> TRUE,
               user |-> ReqUser(decodedToken.uid,
                                IF decodedToken.role # "" THEN decodedToken.role
                                                          ELSE "resident")]
         ELSE [next |-> FALSE, status |-> 403, verifier |-> TRUE, user |-> NoUser]

requireAdmin(user) ==
    IF ~user.present THEN [next |-> FALSE, status |-> 401]
    ELSE IF user.role # "admin" /\ user.role # "super_admin"
    THEN [next |-> FALSE, status |-> 403]
    ELSE [next |-> TRUE, status |-> 0]

(***************************************************************************)
(* router.<verb>(path, verifyAuth [, verifyAdmin], handler): the chain in  *)
(* front of a handler.  pass: the handler is reached.                      *)
(***************************************************************************)
\* a route registered without verifyAdmin
ChainWithoutAdminGate(c, adminOnly) ==
    LET a == verifyAuth(c) IN
    [pass |-> a.next, status |-> a.status, verifier |-> a.verifier, user |-> a.user]

Chain(c, adminOnly) ==
    LET a == verifyAuth(c) IN
    IF ~a.next
    THEN [pass |-> FALSE, status |-> a.status, verifier |-> a.verifier, user |-> a.user]
    ELSE LET g == IF adminOnly THEN verifyAdmin(a.user) ELSE [next |-> TRUE, status |-> 0] IN
         [pass |-> g.next, status |-> g.status, verifier |-> a.verifier, user |-> a.user]

\* no middleware in front of the handler (public routes)
Public == [pass |-> TRUE, status |-> 0, verifier |-> FALSE, user |-> NoUser]

(***************************************************************************)
(* Collections.  'users' holds the Application User Records, keyed by      *)
(* identity id, and the documents createResident adds under a generated id.*)
(***************************************************************************)
UserDocIds == UIDs \cup AutoIds

\* the documents the requests handled one at a time name: those of the
\* identities and the first one add() generates
ResidentIds == UIDs \cup {AutoId}

NoRec == [exists |-> FALSE, email |-> NoEmail, role |-> "", displayName |-> "",
          phoneNumber |-> "", flatNumber |-> "", blockNumber |-> ""]

UserRec(email, role, displayName, phoneNumber, flatNumber, blockNumber) ==
    [exists |-> TRUE, email |-> email, role |-> role, displayName |-> displayName,
     phoneNumber |-> phoneNumber, flatNumber |-> flatNumber, blockNumber |-> blockNumber]

NoSession == [state |-> "absent", role |-> ""]

\* 'events': attendees is the attendee-id array, maxAttendees the cap
\* (Undefined for null: createEvent stores `maxAttendees || null`)
NumEvents == 1
EventIds == 1..NumEvents
MaxCap == 2
CapVals == {Undefined} \cup (0..MaxCap)

NoEvent == [exists |-> FALSE, attendees |-> <<>>, maxAttendees |-> Undefined]

\* 'documents', 'gallery', 'announcements': one document in each at most
ContentColls == {"documents", "gallery", "announcements"}

NoDoc == [exists |-> FALSE, title |-> ""]

\* the requests the server can be handling at once
CallIds == 1..NumUsers

\* a request of identity uid that awaits its database write (pc "read": the
\* snapshot the read returned is snap) or has been answered (pc "done");
\* id is the event id of the request, or the address in the body of a
\* POST /api/residents
NoCall == [pc |-> "idle", op |-> "", uid |-> DevUid, id |-> DevUid, snap |-> NoEvent,
           status |-> 0, sent |-> 0, threw |-> FALSE, unhandled |-> FALSE]

\* calls of fetchBackendUserData that can be under way at once
MaxFetches == 2
FetchIds == 1..MaxFetches

\* sign-ins of one client session
MaxSignIns == 2

\* currentUser of the AuthProvider: null, or the user object with its role;
\* merged: the record of GET /api/auth/me has been spread into it
NoCurrentUser == [present |-> FALSE, role |-> "", merged |-> FALSE]

NoFetch == [pc |-> "free", uid |-> DevUid]

\* useState(null), useState(null), useState(true), useState(false); nothing
\* in localStorage, no default Authorization header, no fetch under way.
\* signedIn is the identity the provider holds a session for (DevUid: none),
\* started: onAuthStateChanged has delivered its first event, refreshFailed:
\* user.getIdToken(true) has rejected since the last sign-in.
NoClient ==
    [signedIn |-> DevUid, firebaseUser |-> DevUid, currentUser |-> NoCurrentUser,
     loading |-> TRUE, tokenLoading |-> FALSE, authToken |-> FALSE, header |-> FALSE,
     fetch |-> [f \in FetchIds |-> NoFetch], signIns |-> 0, started |-> FALSE,
     refreshFailed |-> FALSE]

Init ==
    /\ env \in Envs
    /\ session = [u \in UIDs |-> NoSession]
    /\ claimRole = [u \in UIDs |-> ""]
    /\ users = [i \in UserDocIds |-> NoRec]
    /\ events = [e \in EventIds |-> NoEvent]
    /\ content = [k \in ContentColls |-> NoDoc]
    /\ req = NoReq
    /\ resp = NoResp
    /\ calls = [k \in CallIds |-> NoCall]
    /\ client = NoClient
    /\ backend = "firebase"

\* no request is being answered
Idle == req = NoReq

\* res.status(..).json(..) has been sent: the request is over
ResponseSent ==
    /\ req # NoReq
    /\ req' = NoReq /\ resp' = NoResp
    /\ UNCHANGED <<calls, client, backend, env, session, claimRole, users, events, content>>

(***************************************************************************)
(* Identity provider and administration (no HTTP request to this server)   *)
(***************************************************************************)
\* createUserWithEmailAndPassword in the client: a new identity, signed in
ProviderSignUp(u) ==
    /\ Idle
    /\ session[u].state = "absent"
    /\ session' = [session EXCEPT ![u] = [state |-> "valid", role |-> claimRole[u]]]
    /\ UNCHANGED <<calls, client, backend, env, claimRole, users, events, content, req, resp>>

\* signInWithEmailAndPassword / getIdToken(true): a fresh token that embeds
\* the custom claims of the identity as they are now
ProviderSignIn(u) ==
    /\ Idle
    /\ session[u].state # "absent"
    /\ session' = [session EXCEPT ![u] = [state |-> "valid", role |-> claimRole[u]]]
    /\ UNCHANGED <<calls, client, backend, env, claimRole, users, events, content, req, resp>>

\* the token of u expires or is revoked at the provider
TokenExpires(u) ==
    /\ Idle
    /\ session[u].state = "valid"
    /\ session' = [session EXCEPT ![u] = [state |-> "none", role |-> ""]]
    /\ UNCHANGED <<calls, client, backend, env, claimRole, users, events, content, req, resp>>

\* scripts/makeAdmin.ts: makeUserAdmin(email)
makeUserAdmin(u) ==
    /\ Idle
    /\ session' = [session EXCEPT ![u] =
                       IF @.state = "absent" THEN [state |-> "none", role |-> ""] ELSE @]
    /\ users' = [users EXCEPT ![u] =
                     IF @.exists THEN [@ EXCEPT !.role = "admin"]
                     ELSE UserRec(u, "admin", "a", "", "", "")]
    /\ claimRole' = [claimRole EXCEPT ![u] = "admin"]
    /\ UNCHANGED <<calls, client, backend, env, events, content, req, resp>>

\* an administrator takes the admin role away again: the record's role goes
\* back to 'resident' and the custom claim is cleared
RevokeAdmin(u) ==
    /\ Idle
    /\ users[u].exists /\ users[u].role = "admin"
    /\ users' = [users EXCEPT ![u].role = "resident"]
    /\ claimRole' = [claimRole EXCEPT ![u] = ""]
    /\ UNCHANGED <<calls, client, backend, env, session, events, content, req, resp>>

(***************************************************************************)
(* Requests that touch no collection                                       *)
(***************************************************************************)
\* router.get('/env', verifyAuth, verifyAdmin, getEnvInfo)
GetEnvInfo(c) ==
    /\ Idle
    /\ LET g == Chain(c, TRUE) IN
       /\ req' = Request("GET /api/env", c, DevUid, NoBody)
       /\ resp' = IF g.pass THEN successResponse(200, g, "")
                  ELSE Reject(g.status, g.verifier, g.user)
    /\ UNCHANGED <<calls, client, backend, env, session, claimRole, users, events, content>>

\* requests to the routes that have no middleware: with or without a token
PublicCreds == {NoCred, [hdr |-> "bearer", tok |-> "garbage", uid |-> DevUid]}

\* the routes registered behind verifyAuth
BehindVerifyAuth(c) == Chain(c, FALSE)

\* app.get('/health', handler), router.get('/', getApiInfo),
\* router.get('/firebase', handler): no middleware is registered
NoMiddleware(c) == Public

\* app.get('/health', ...): res.status(200).json({ status, timestamp, env })
getHealth(c) ==
    /\ Idle
    /\ LET g == NoMiddleware(c) IN
       /\ req' = Request("GET /health", c, DevUid, NoBody)
       /\ resp' = IF ~g.pass THEN Reject(g.status, g.verifier, g.user)
                  ELSE [NoResp EXCEPT !.status = 200, !.json = TRUE, !.handler = TRUE]
    /\ UNCHANGED <<calls, client, backend, env, session, claimRole, users, events, content>>

\* router.get('/', getApiInfo)
getApiInfo(c) ==
    /\ Idle
    /\ LET g == NoMiddleware(c) IN
       /\ req' = Request("GET /api", c, DevUid, NoBody)
       /\ resp' = IF ~g.pass THEN Reject(g.status, g.verifier, g.user)
                  ELSE successResponse(200, g, "")
    /\ UNCHANGED <<calls, client, backend, env, session, claimRole, users, events, content>>

\* router.get('/firebase', ...): adds a document to the 'test' collection
testFirebase(c) ==
    /\ Idle
    /\ LET g == NoMiddleware(c) IN
       /\ req' = Request("GET /api/test/firebase", c, DevUid, NoBody)
       /\ resp' = IF ~g.pass THEN Reject(g.status, g.verifier, g.user)
                  ELSE successResponse(200, g, "")
    /\ UNCHANGED <<calls, client, backend, env, session, claimRole, users, events, content>>

\* router.get('/me', verifyAuth, getCurrentUser)
getCurrentUser(c) ==
    /\ Idle
    /\ LET g == Chain(c, FALSE) IN
       /\ req' = Request("GET /api/auth/me", c, DevUid, NoBody)
       /\ resp' = IF ~g.pass THEN Reject(g.status, g.verifier, g.user)
                  ELSE IF ~(g.user.uid \in UserDocIds /\ users[g.user.uid].exists)
                  THEN errorResponse(404, g)
                  ELSE successResponse(200, g, "")
    /\ UNCHANGED <<calls, client, backend, env, session, claimRole, users, events, content>>

\* a route whose only gate is the Require-Admin gate: `gate` runs on a request
\* whose req.user is `user` (absent when no Require-Authenticated gate ran)
GateUsers == {NoUser} \cup {ReqUser(1, r) : r \in Roles \cup {"user"}}

AdminGateOnly(gate, user) ==
    /\ Idle
    /\ LET g == IF gate = "verifyAdmin" THEN verifyAdmin(user) ELSE requireAdmin(user) IN
       /\ req' = Request(gate, NoCred, DevUid, NoBody)
       /\ resp' = IF g.next
                  THEN successResponse(200, [verifier |-> FALSE, user |-> user], "")
                  ELSE Reject(g.status, FALSE, user)
    /\ UNCHANGED <<calls, client, backend, env, session, claimRole, users, events, content>>

\* a route guarded by authenticateUser, requireAdmin
AuthenticateUserRoute(c) ==
    /\ Idle
    /\ LET a == authenticateUser(c)
           g == requireAdmin(a.user) IN
       /\ req' = Request("authenticateUser", c, DevUid, NoBody)
       /\ resp' = IF ~a.next THEN Reject(a.status, a.verifier, a.user)
                  ELSE IF ~g.next THEN Reject(g.status, a.verifier, a.user)
                  ELSE successResponse(200, a, "")
    /\ UNCHANGED <<calls, client, backend, env, session, claimRole, users, events, content>>

(***************************************************************************)
(* controllers/authController: the public endpoints                        *)
(***************************************************************************)
\* data.token of register, login and google-auth
SimulatedToken == IF env = "development" THEN "simulated" ELSE "null"

\* a record that takes its role from the request body
NewUserRoleFromBody(b) == IF b.role # "" THEN b.role ELSE "resident"

\* role: 'resident' in the documents the auth endpoints create
NewUserRole(b) == "resident"

\* the identity whose address is body.email (a password is always sent)
registerUser(b) ==
    /\ Idle
    /\ req' = Request("POST /api/auth/register", NoCred, DevUid, b)
    /\ IF b.email = NoEmail
       THEN /\ resp' = errorResponse(400, Public)
            /\ UNCHANGED <<session, users>>
       ELSE IF session[b.email].state # "absent"      \* auth/email-already-exists
       THEN /\ resp' = errorResponse(400, Public)
            /\ UNCHANGED <<session, users>>
       ELSE /\ session' = [session EXCEPT ![b.email] = [state |-> "none", role |-> ""]]
            /\ users' = [users EXCEPT ![b.email] =
                             UserRec(b.email, NewUserRole(b), b.name, b.phoneNumber, "", "")]
            /\ resp' = successResponse(201, Public, SimulatedToken)
    /\ UNCHANGED <<calls, client, backend, env, claimRole, events, content>>

loginUser(b) ==
    /\ Idle
    /\ req' = Request("POST /api/auth/login", NoCred, DevUid, b)
    /\ IF b.email = NoEmail
       THEN /\ resp' = errorResponse(400, Public)
            /\ UNCHANGED users
       ELSE IF session[b.email].state = "absent"      \* getUserByEmail rejects
       THEN /\ resp' = errorResponse(404, Public)
            /\ UNCHANGED users
       ELSE /\ users' = [users EXCEPT ![b.email] =
                             IF @.exists THEN @
                             ELSE UserRec(b.email, NewUserRole(b), "", "", "", "")]
            /\ resp' = successResponse(200, Public, SimulatedToken)
    /\ UNCHANGED <<calls, client, backend, env, session, claimRole, events, content>>

\* body.uid = DevUid stands for a body without uid
googleAuth(b) ==
    /\ Idle
    /\ req' = Request("POST /api/auth/google-auth", NoCred, DevUid, b)
    /\ IF b.uid = DevUid \/ b.email = NoEmail
       THEN /\ resp' = errorResponse(400, Public)
            /\ UNCHANGED users
       ELSE /\ users' = [users EXCEPT ![b.uid] =
                             IF @.exists THEN @
                             ELSE UserRec(b.email, NewUserRole(b), b.name, "", "", "")]
            /\ resp' = successResponse(200, Public, SimulatedToken)
    /\ UNCHANGED <<calls, client, backend, env, session, claimRole, events, content>>

\* auth.getUserByEmail, auth.generatePasswordResetLink: 200 whether the
\* address is known or not, and no write
forgotPassword(b) ==
    /\ Idle
    /\ req' = Request("POST /api/auth/forgot-password", NoCred, DevUid, b)
    /\ resp' = IF b.email = NoEmail THEN errorResponse(400, Public)
               ELSE successResponse(200, Public, "")
    /\ UNCHANGED <<calls, client, backend, env, session, claimRole, users, events, content>>

\* bodies of the auth endpoints: the caller names its own address and uid
AuthBodies == {[NoBody EXCEPT !.email = u, !.uid = u] : u \in {DevUid} \cup UIDs}

(***************************************************************************)
(* controllers: documents, gallery and announcements (admin-only writes)   *)
(***************************************************************************)
PostRoute == [documents |-> "POST /api/documents", gallery |-> "POST /api/gallery",
              announcements |-> "POST /api/announcements"]

PutRoute == [documents |-> "PUT /api/documents/:id", gallery |-> "PUT /api/gallery/:id",
             announcements |-> "PUT /api/announcements/:id"]

DeleteRoute == [documents |-> "DELETE /api/documents/:id",
                gallery |-> "DELETE /api/gallery/:id",
                announcements |-> "DELETE /api/announcements/:id"]

ContentBodies == {[NoBody EXCEPT !.title = t] : t \in FieldVals}

\* createDocument / createGalleryImage / createAnnouncement (title stands for
\* the required fields)
createContent(k, c, b) ==
    /\ Idle
    /\ LET g == Chain(c, TRUE) IN
       /\ (g.pass /\ b.title # "") => ~content[k].exists
       /\ req' = Request(PostRoute[k], c, DevUid, b)
       /\ IF ~g.pass
          THEN resp' = Reject(g.status, g.verifier, g.user) /\ UNCHANGED content
          ELSE IF b.title = ""
          THEN resp' = errorResponse(400, g) /\ UNCHANGED content
          ELSE /\ content' = [content EXCEPT ![k] = [exists |-> TRUE, title |-> b.title]]
               /\ resp' = successResponse(201, g, "")
    /\ UNCHANGED <<calls, client, backend, env, session, claimRole, users, events>>

\* updateDocument / updateGalleryImage / updateAnnouncement
updateContent(k, c, b) ==
    /\ Idle
    /\ LET g == Chain(c, TRUE) IN
       /\ req' = Request(PutRoute[k], c, DevUid, b)
       /\ IF ~g.pass
          THEN resp' = Reject(g.status, g.verifier, g.user) /\ UNCHANGED content
          ELSE IF ~content[k].exists
          THEN resp' = errorResponse(404, g) /\ UNCHANGED content
          ELSE /\ content' = [content EXCEPT ![k].title = IF b.title # "" THEN b.title ELSE @]
               /\ resp' = successResponse(200, g, "")
    /\ UNCHANGED <<calls, client, backend, env, session, claimRole, users, events>>

\* deleteDocument / deleteGalleryImage / deleteAnnouncement
deleteContent(k, c) ==
    /\ Idle
    /\ LET g == Chain(c, TRUE) IN
       /\ req' = Request(DeleteRoute[k], c, DevUid, NoBody)
       /\ IF ~g.pass
          THEN resp' = Reject(g.status, g.verifier, g.user) /\ UNCHANGED content
          ELSE IF ~content[k].exists
          THEN resp' = errorResponse(404, g) /\ UNCHANGED content
          ELSE /\ content' = [content EXCEPT ![k] = NoDoc]
               /\ resp' = successResponse(200, g, "")
    /\ UNCHANGED <<calls, client, backend, env, session, claimRole, users, events>>

(***************************************************************************)
(* controllers/eventController                                             *)
(***************************************************************************)
EventBodies == {[NoBody EXCEPT !.title = "a", !.maxAttendees = m] : m \in CapVals}

\* with or without the required fields, with a cap of 1 or none
CappedEventBodies == {[NoBody EXCEPT !.title = t, !.maxAttendees = m] :
                         t \in FieldVals, m \in {Undefined, 1}}

FreeEventIds == {e \in EventIds : ~events[e].exists}

\* title stands for the required title, description, date and location
createEvent(c, b) ==
    /\ Idle
    /\ LET g == Chain(c, TRUE) IN
       /\ (g.pass /\ b.title # "") => FreeEventIds # {}
       /\ req' = Request("POST /api/events", c, DevUid, b)
       /\ IF ~g.pass
          THEN resp' = Reject(g.status, g.verifier, g.user) /\ UNCHANGED events
          ELSE IF b.title = ""
          THEN resp' = errorResponse(400, g) /\ UNCHANGED events
          ELSE LET e == CHOOSE x \in FreeEventIds : \A y \in FreeEventIds : x <= y IN
               /\ events' = [events EXCEPT ![e] =
                                [exists |-> TRUE, attendees |-> <<>>,
                                 maxAttendees |-> IF b.maxAttendees > 0
                                                  THEN b.maxAttendees ELSE Undefined]]
               /\ resp' = successResponse(201, g, "")
    /\ UNCHANGED <<calls, client, backend, env, session, claimRole, users, content>>

updateEvent(c, id, b) ==
    /\ Idle
    /\ LET g == Chain(c, TRUE) IN
       /\ req' = Request("PUT /api/events/:id", c, id, b)
       /\ IF ~g.pass
          THEN resp' = Reject(g.status, g.verifier, g.user) /\ UNCHANGED events
          ELSE IF ~events[id].exists
          THEN resp' = errorResponse(404, g) /\ UNCHANGED events
          ELSE /\ events' = [events EXCEPT ![id].maxAttendees =
                                IF b.maxAttendees # Undefined THEN b.maxAttendees ELSE @]
               /\ resp' = successResponse(200, g, "")
    /\ UNCHANGED <<calls, client, backend, env, session, claimRole, users, content>>

deleteEvent(c, id) ==
    /\ Idle
    /\ LET g == Chain(c, TRUE) IN
       /\ req' = Request("DELETE /api/events/:id", c, id, NoBody)
       /\ IF ~g.pass
          THEN resp' = Reject(g.status, g.verifier, g.user) /\ UNCHANGED events
          ELSE IF ~events[id].exists
          THEN resp' = errorResponse(404, g) /\ UNCHANGED events
          ELSE /\ events' = [events EXCEPT ![id] = NoEvent]
               /\ resp' = successResponse(200, g, "")
    /\ UNCHANGED <<calls, client, backend, env, session, claimRole, users, content>>

\* a membership test that looks at the first attendee only
IncludesFirstOnly(attendees, userId) == attendees # <<>> /\ attendees[1] = userId

\* attendees.includes(userId)
Includes(attendees, userId) == \E i \in DOMAIN attendees : attendees[i] = userId

\* a removal that drops the first attendee, whoever it is
WithoutFirst(attendees, userId) == Tail(attendees)

\* attendees.filter(id => id !== userId)
Without(attendees, userId) == SelectSeq(attendees, LAMBDA a : a # userId)

rsvpToEvent(c, id) ==
    /\ Idle
    /\ LET g == Chain(c, FALSE)
           userId == g.user.uid
           attendees == events[id].attendees IN
       /\ req' = Request("POST /api/events/:id/rsvp", c, id, NoBody)
       /\ IF ~g.pass
          THEN resp' = Reject(g.status, g.verifier, g.user) /\ UNCHANGED events
          ELSE IF ~events[id].exists
          THEN resp' = errorResponse(404, g) /\ UNCHANGED events
          ELSE IF Includes(attendees, userId)
          THEN resp' = errorResponse(400, g) /\ UNCHANGED events
          ELSE IF events[id].maxAttendees > 0 /\ Len(attendees) >= events[id].maxAttendees
          THEN resp' = errorResponse(400, g) /\ UNCHANGED events
          ELSE /\ events' = [events EXCEPT ![id].attendees = Append(attendees, userId)]
               /\ resp' = successResponse(200, g, "")
    /\ UNCHANGED <<calls, client, backend, env, session, claimRole, users, content>>

cancelRsvp(c, id) ==
    /\ Idle
    /\ LET g == Chain(c, FALSE)
           userId == g.user.uid
           attendees == events[id].attendees IN
       /\ req' = Request("DELETE /api/events/:id/rsvp", c, id, NoBody)
       /\ IF ~g.pass
          THEN resp' = Reject(g.status, g.verifier, g.user) /\ UNCHANGED events
          ELSE IF ~events[id].exists
          THEN resp' = errorResponse(404, g) /\ UNCHANGED events
          ELSE IF ~Includes(attendees, userId)
          THEN resp' = errorResponse(400, g) /\ UNCHANGED events
          ELSE /\ events' = [events EXCEPT ![id].attendees = Without(attendees, userId)]
               /\ resp' = successResponse(200, g, "")
    /\ UNCHANGED <<calls, client, backend, env, session, claimRole, users, content>>

(***************************************************************************)
(* controllers/residentController and authController.updateUserProfile     *)
(***************************************************************************)
\* bodies of PUT /api/residents/:id and PUT /api/auth/me: empty, a name, the
\* profile fields, the unit fields with a role, and every field with a role
UpdateBodies ==
    {NoBody,
     [NoBody EXCEPT !.name = "a"],
     [NoBody EXCEPT !.name = "a", !.phoneNumber = "a"],
     [NoBody EXCEPT !.flatNumber = "a", !.blockNumber = "a", !.role = "admin"],
     [NoBody EXCEPT !.name = "a", !.phoneNumber = "a", !.flatNumber = "a",
                    !.blockNumber = "a", !.role = "admin"]}

\* bodies of POST /api/residents: email, name and flatNumber are required
CreateBodies ==
    {[NoBody EXCEPT !.email = e, !.name = n, !.flatNumber = n, !.role = "admin"] :
        e \in {NoEmail} \cup ResidentIds, n \in FieldVals}

\* an ownership check that lets every authenticated caller through
MayAccessAnyone(user, residentId) == TRUE

\* req.user.role !== 'admin' && req.user.uid !== residentId is the refusal
MayAccess(user, residentId) == user.role = "admin" \/ user.uid = residentId

\* db.collection('users').where('email', '==', email)
WithEmail(email) == {i \in UserDocIds : users[i].exists /\ users[i].email = email}

HasRecord(uid) == uid \in UserDocIds /\ users[uid].exists

getResidentById(c, id) ==
    /\ Idle
    /\ LET g == Chain(c, FALSE) IN
       /\ req' = Request("GET /api/residents/:id", c, id, NoBody)
       /\ resp' = IF ~g.pass THEN Reject(g.status, g.verifier, g.user)
                  ELSE IF ~MayAccess(g.user, id)
                  THEN errorResponse(403, g)
                  ELSE IF ~users[id].exists THEN errorResponse(404, g)
                  ELSE successResponse(200, g, "")
    /\ UNCHANGED <<calls, client, backend, env, session, claimRole, users, events, content>>

createResident(c, b) ==
    /\ Idle
    /\ LET g == Chain(c, TRUE)
           missing == b.email = NoEmail \/ b.name = "" \/ b.flatNumber = "" IN
       /\ (g.pass /\ ~missing /\ WithEmail(b.email) = {}) => ~users[AutoId].exists
       /\ req' = Request("POST /api/residents", c, DevUid, b)
       /\ IF ~g.pass
          THEN resp' = Reject(g.status, g.verifier, g.user) /\ UNCHANGED users
          ELSE IF missing
          THEN resp' = errorResponse(400, g) /\ UNCHANGED users
          ELSE IF WithEmail(b.email) # {}
          THEN resp' = errorResponse(400, g) /\ UNCHANGED users
          ELSE /\ users' = [users EXCEPT ![AutoId] =
                               UserRec(b.email, "resident", b.name, b.phoneNumber,
                                       b.flatNumber, b.blockNumber)]
               /\ resp' = successResponse(201, g, "")
    /\ UNCHANGED <<calls, client, backend, env, session, claimRole, events, content>>

\* updateData built by spreading req.body
ResidentUpdateSpreadingBody(rec, b, role) ==
    [rec EXCEPT
       !.displayName = IF b.name # "" THEN b.name ELSE @,
       !.phoneNumber = IF b.phoneNumber # "" THEN b.phoneNumber ELSE @,
       !.flatNumber = IF b.flatNumber # "" THEN b.flatNumber ELSE @,
       !.blockNumber = IF b.blockNumber # "" THEN b.blockNumber ELSE @,
       !.role = IF b.role # "" THEN b.role ELSE @]

\* updateData with flatNumber and blockNumber taken from any caller
ResidentUpdateUnitsByOwner(rec, b, role) ==
    [rec EXCEPT
       !.displayName = IF b.name # "" THEN b.name ELSE @,
       !.phoneNumber = IF b.phoneNumber # "" THEN b.phoneNumber ELSE @,
       !.flatNumber = IF b.flatNumber # "" THEN b.flatNumber ELSE @,
       !.blockNumber = IF b.blockNumber # "" THEN b.blockNumber ELSE @]

\* the updateData of updateResident for a caller with role `role`
ResidentUpdate(rec, b, role) ==
    [rec EXCEPT
       !.displayName = IF b.name # "" THEN b.name ELSE @,
       !.phoneNumber = IF b.phoneNumber # "" THEN b.phoneNumber ELSE @,
       !.flatNumber = IF role = "admin" /\ b.flatNumber # "" THEN b.flatNumber ELSE @,
       !.blockNumber = IF role = "admin" /\ b.blockNumber # "" THEN b.blockNumber ELSE @]

updateResident(c, id, b) ==
    /\ Idle
    /\ LET g == Chain(c, FALSE) IN
       /\ req' = Request("PUT /api/residents/:id", c, id, b)
       /\ IF ~g.pass
          THEN resp' = Reject(g.status, g.verifier, g.user) /\ UNCHANGED users
          ELSE IF ~MayAccess(g.user, id)
          THEN resp' = errorResponse(403, g) /\ UNCHANGED users
          ELSE IF ~users[id].exists
          THEN resp' = errorResponse(404, g) /\ UNCHANGED users
          ELSE /\ users' = [users EXCEPT ![id] = ResidentUpdate(@, b, g.user.role)]
               /\ resp' = successResponse(200, g, "")
    /\ UNCHANGED <<calls, client, backend, env, session, claimRole, events, content>>

deleteResident(c, id) ==
    /\ Idle
    /\ LET g == Chain(c, TRUE) IN
       /\ req' = Request("DELETE /api/residents/:id", c, id, NoBody)
       /\ IF ~g.pass
          THEN resp' = Reject(g.status, g.verifier, g.user) /\ UNCHANGED users
          ELSE IF ~users[id].exists
          THEN resp' = errorResponse(404, g) /\ UNCHANGED users
          ELSE /\ users' = [users EXCEPT ![id] = NoRec]
               /\ resp' = successResponse(200, g, "")
    /\ UNCHANGED <<calls, client, backend, env, session, claimRole, events, content>>

\* the updateData of updateUserProfile (body.displayName is body.name here)
ProfileUpdate(rec, b) ==
    [rec EXCEPT
       !.displayName = IF b.name # "" THEN b.name ELSE @,
       !.phoneNumber = IF b.phoneNumber # "" THEN b.phoneNumber ELSE @]

\* the identities auth.updateUser(uid, ..) finds
ProviderKnows(uid) == IF backend = "mock" THEN uid \in MockUids ELSE uid \in UIDs

\* PUT /api/auth/me.  auth.updateUser rejects for an identity the provider
\* does not know, and Firestore's update rejects for a missing document:
\* both end in the catch block's 500.  The update of the mock collection
\* does nothing for a missing document, and the handler answers 200.
updateUserProfile(c, b) ==
    /\ Idle
    /\ LET g == Chain(c, FALSE)
           uid == g.user.uid IN
       /\ req' = Request("PUT /api/auth/me", c, DevUid, b)
       /\ IF ~g.pass
          THEN resp' = Reject(g.status, g.verifier, g.user) /\ UNCHANGED users
          ELSE IF (b.name # "" \/ b.phoneNumber # "") /\ ~ProviderKnows(uid)
          THEN resp' = errorResponse(500, g) /\ UNCHANGED users
          ELSE IF ~HasRecord(uid)
          THEN /\ resp' = IF backend = "mock" THEN successResponse(200, g, "")
                          ELSE errorResponse(500, g)
               /\ UNCHANGED users
          ELSE /\ users' = [users EXCEPT ![uid] = ProfileUpdate(@, b)]
               /\ resp' = successResponse(200, g, "")
    /\ UNCHANGED <<calls, client, backend, env, session, claimRole, events, content>>

(***************************************************************************)
(* Authorization: provider operations and the requests above               *)
(***************************************************************************)
Next ==
    \/ \E u \in UIDs : ProviderSignUp(u)
    \/ \E u \in UIDs : ProviderSignIn(u)
    \/ \E u \in UIDs : TokenExpires(u)
    \/ \E u \in UIDs : makeUserAdmin(u)
    \/ \E u \in UIDs : RevokeAdmin(u)
    \/ \E c \in Creds : GetEnvInfo(c)
    \/ \E c \in PublicCreds : getHealth(c)
    \/ \E c \in PublicCreds : getApiInfo(c)
    \/ \E c \in PublicCreds : testFirebase(c)
    \/ \E c \in TokenCreds : getCurrentUser(c)
    \/ \E gate \in {"verifyAdmin", "requireAdmin"}, user \in GateUsers : AdminGateOnly(gate, user)
    \/ \E c \in Creds : AuthenticateUserRoute(c)
    \/ \E b \in AuthBodies : registerUser(b)
    \/ \E b \in AuthBodies : loginUser(b)
    \/ \E b \in AuthBodies : googleAuth(b)
    \/ ResponseSent

Spec == Init /\ [][Next]_vars

(***************************************************************************)
(* A running production deployment: makeUserAdmin has made identity 1 an   *)
(* admin, every other identity has registered, and all have signed in.     *)
(***************************************************************************)
Admin == 1

InitStaffed ==
    /\ env = "production"
    /\ session = [u \in UIDs |->
                    [state |-> "valid", role |-> IF u = Admin THEN "admin" ELSE ""]]
    /\ claimRole = [u \in UIDs |-> IF u = Admin THEN "admin" ELSE ""]
    /\ users = [i \in UserDocIds |->
                  IF i = Admin THEN UserRec(i, "admin", "a", "", "", "")
                  ELSE IF i \in UIDs THEN UserRec(i, "resident", "", "", "", "")
                  ELSE NoRec]
    /\ events = [e \in EventIds |-> NoEvent]
    /\ content = [k \in ContentColls |-> NoDoc]
    /\ req = NoReq
    /\ resp = NoResp
    /\ calls = [k \in CallIds |-> NoCall]
    /\ client = NoClient
    /\ backend = "firebase"

(***************************************************************************)
(* Writes: every create, update and delete route behind verifyAdmin        *)
(***************************************************************************)
NextWrites ==
    \/ \E k \in ContentColls, c \in Creds, b \in ContentBodies : createContent(k, c, b)
    \/ \E k \in ContentColls, c \in Creds, b \in ContentBodies : updateContent(k, c, b)
    \/ \E k \in ContentColls, c \in Creds : deleteContent(k, c)
    \/ \E c \in Creds, b \in CappedEventBodies : createEvent(c, b)
    \/ \E c \in Creds, id \in EventIds, b \in CappedEventBodies : updateEvent(c, id, b)
    \/ \E c \in Creds, id \in EventIds : deleteEvent(c, id)
    \/ \E c \in Creds, b \in CreateBodies : createResident(c, b)
    \/ \E c \in Creds, id \in ResidentIds : deleteResident(c, id)
    \/ ResponseSent

SpecWrites == InitStaffed /\ [][NextWrites]_vars

(***************************************************************************)
(* Resident profiles                                                       *)
(***************************************************************************)
NextResidents ==
    \/ \E c \in Creds, id \in ResidentIds : getResidentById(c, id)
    \/ \E c \in Creds, id \in ResidentIds, b \in UpdateBodies : updateResident(c, id, b)
    \/ \E c \in Creds, id \in ResidentIds : deleteResident(c, id)
    \/ \E c \in Creds, b \in UpdateBodies : updateUserProfile(c, b)
    \/ \E b \in AuthBodies : loginUser(b)
    \/ ResponseSent

SpecResidents == InitStaffed /\ [][NextResidents]_vars

(***************************************************************************)
(* The public auth endpoints, called with no token and with any body: any  *)
(* address, any uid, with or without a role.                               *)
(***************************************************************************)
PublicAuthBodies ==
    {[NoBody EXCEPT !.email = e, !.uid = u, !.role = r] :
        e \in {NoEmail} \cup UIDs, u \in {DevUid} \cup UIDs, r \in {"", "admin"}}

NextPublicAuth ==
    \/ \E u \in UIDs : ProviderSignUp(u)
    \/ \E u \in UIDs : makeUserAdmin(u)
    \/ \E b \in PublicAuthBodies : registerUser(b)
    \/ \E b \in PublicAuthBodies : loginUser(b)
    \/ \E b \in PublicAuthBodies : googleAuth(b)
    \/ \E b \in PublicAuthBodies : forgotPassword(b)
    \/ ResponseSent

SpecPublicAuth == Init /\ [][NextPublicAuth]_vars

(***************************************************************************)
(* A server started without provider credentials, or whose provider        *)
(* initialization failed: config/firebase-admin exports the mock auth and  *)
(* the mock db, whatever NODE_ENV is.  doc(id) of the mock 'users'         *)
(* collection looks for an item with that `id`; the mock users have `uid`  *)
(* and no `id`, so no document is found for them.                          *)
(***************************************************************************)
InitMock ==
    /\ env \in Envs
    /\ session = [u \in UIDs |-> NoSession]
    /\ claimRole = [u \in UIDs |-> ""]
    /\ users = [i \in UserDocIds |-> NoRec]
    /\ events = [e \in EventIds |-> NoEvent]
    /\ content = [k \in ContentColls |-> NoDoc]
    /\ req = NoReq
    /\ resp = NoResp
    /\ calls = [k \in CallIds |-> NoCall]
    /\ client = NoClient
    /\ backend = "mock"

NextMock ==
    \/ \E c \in Creds \cup MockCreds : GetEnvInfo(c)
    \/ \E c \in Creds \cup MockCreds : getCurrentUser(c)
    \/ \E c \in Creds \cup MockCreds, b \in UpdateBodies : updateUserProfile(c, b)
    \/ ResponseSent

SpecMock == InitMock /\ [][NextMock]_vars

(***************************************************************************)
(* Owner-or-admin routes with every role a token can carry.  The role of   *)
(* the request context is the `role` custom claim of the token, which the  *)
(* provider's setCustomUserClaims sets and the next token embeds.          *)
(***************************************************************************)
\* auth.setCustomUserClaims(uid, { role })
setCustomUserClaims(u, role) ==
    /\ Idle
    /\ session[u].state # "absent"
    /\ claimRole[u] # role
    /\ claimRole' = [claimRole EXCEPT ![u] = role]
    /\ UNCHANGED <<calls, client, backend, env, session, users, events, content, req, resp>>

\* bodies of PUT /api/residents/:id: a name, or the unit fields with a role
OwnerBodies ==
    {[NoBody EXCEPT !.name = "a"],
     [NoBody EXCEPT !.flatNumber = "a", !.blockNumber = "a", !.role = "admin"]}

NextOwner ==
    \/ \E u \in UIDs, r \in Roles : setCustomUserClaims(u, r)
    \/ \E u \in UIDs : ProviderSignIn(u)
    \/ \E c \in TokenCreds, id \in ResidentIds : getResidentById(c, id)
    \/ \E c \in TokenCreds, id \in ResidentIds, b \in OwnerBodies : updateResident(c, id, b)
    \/ ResponseSent

SpecOwner == InitStaffed /\ [][NextOwner]_vars

(***************************************************************************)
(* Events and RSVPs                                                        *)
(***************************************************************************)
NextEvents ==
    \/ \E c \in TokenCreds, b \in EventBodies : createEvent(c, b)
    \/ \E c \in TokenCreds, id \in EventIds, b \in EventBodies : updateEvent(c, id, b)
    \/ \E c \in TokenCreds, id \in EventIds : deleteEvent(c, id)
    \/ \E c \in TokenCreds, id \in EventIds : rsvpToEvent(c, id)
    \/ \E c \in TokenCreds, id \in EventIds : cancelRsvp(c, id)
    \/ ResponseSent

SpecEvents == InitStaffed /\ [][NextEvents]_vars

(***************************************************************************)
(* Concurrent RSVP and cancel requests.  rsvpToEvent and cancelRsvp await  *)
(* the read of the event document and then await an update that replaces   *)
(* the attendees array by one computed from what was read; requests of     *)
(* other identities run between the two.                                   *)
(***************************************************************************)
JwtCred(u) == [hdr |-> "bearer", tok |-> "jwt", uid |-> u]

\* the answer rsvpToEvent computes from the document it has read
RsvpStatus(e, userId) ==
    IF ~e.exists THEN 404
    ELSE IF Includes(e.attendees, userId) THEN 400
    ELSE IF e.maxAttendees > 0 /\ Len(e.attendees) >= e.maxAttendees THEN 400
    ELSE 200

\* the answer cancelRsvp computes from the document it has read
CancelStatus(e, userId) ==
    IF ~e.exists THEN 404
    ELSE IF ~Includes(e.attendees, userId) THEN 400
    ELSE 200

\* verifyAuth, then await db.collection('events').doc(eventId).get(); a
\* request the handler refuses (404, 400) is answered right after the read,
\* the others go on to await the update
Started(op, u, id) ==
    LET g == Chain(JwtCred(u), FALSE)
        st == IF op = "rsvp" THEN RsvpStatus(events[id], u)
              ELSE CancelStatus(events[id], u) IN
    IF g.pass /\ st = 200
    THEN [NoCall EXCEPT !.pc = "read", !.op = op, !.uid = u, !.id = id,
                        !.snap = events[id]]
    ELSE [NoCall EXCEPT !.pc = "done", !.op = op, !.uid = u, !.id = id,
                        !.status = IF g.pass THEN st ELSE g.status, !.sent = 1]

\* request k: POST /api/events/:id/rsvp of identity u, up to its read
rsvpRead(k, u, id) ==
    /\ Idle
    /\ calls[k].pc # "read"
    /\ calls' = [calls EXCEPT ![k] = Started("rsvp", u, id)]
    /\ UNCHANGED <<client, backend, env, session, claimRole, users, events, content, req, resp>>

\* request k: DELETE /api/events/:id/rsvp of identity u, up to its read
cancelRead(k, u, id) ==
    /\ Idle
    /\ calls[k].pc # "read"
    /\ calls' = [calls EXCEPT ![k] = Started("cancel", u, id)]
    /\ UNCHANGED <<client, backend, env, session, claimRole, users, events, content, req, resp>>

\* the answer computed from the document read; 500 from the catch when the
\* document is gone by the time of the update
Answer(k) ==
    LET c == calls[k]
        st == IF c.op = "rsvp" THEN RsvpStatus(c.snap, c.uid)
              ELSE CancelStatus(c.snap, c.uid) IN
    IF st = 200 /\ ~events[c.id].exists THEN 500 ELSE st

\* update({ attendees: [...attendees, userId] }) and
\* update({ attendees: attendees.filter(id => id !== userId) }): the array
\* computed from the document read replaces the stored one
Stored(op, read, userId) ==
    IF op = "rsvp" THEN Append(read, userId) ELSE Without(read, userId)

\* an update that works on the array stored now, not on the one read
EventsAfterOnStored(k) ==
    LET c == calls[k] IN
    IF Answer(k) = 200
    THEN [events EXCEPT ![c.id].attendees = Stored(c.op, @, c.uid)]
    ELSE events

EventsAfter(k) ==
    LET c == calls[k] IN
    IF Answer(k) = 200
    THEN [events EXCEPT ![c.id].attendees = Stored(c.op, c.snap.attendees, c.uid)]
    ELSE events

rsvpWrite(k) ==
    /\ calls[k].pc = "read" /\ calls[k].op = "rsvp"
    /\ calls' = [calls EXCEPT ![k].pc = "done", ![k].status = Answer(k), ![k].sent = 1,
                              ![k].snap = NoEvent]
    /\ events' = EventsAfter(k)
    /\ UNCHANGED <<client, backend, env, session, claimRole, users, content, req, resp>>

cancelWrite(k) ==
    /\ calls[k].pc = "read" /\ calls[k].op = "cancel"
    /\ calls' = [calls EXCEPT ![k].pc = "done", ![k].status = Answer(k), ![k].sent = 1,
                              ![k].snap = NoEvent]
    /\ events' = EventsAfter(k)
    /\ UNCHANGED <<client, backend, env, session, claimRole, users, content, req, resp>>

(***************************************************************************)
(* Rejected database calls.  Every controller is                           *)
(* asyncHandler(async (req, res) => { try { ... } catch { errorResponse(   *)
(* res, 500, ...) } }).  o is what has happened to a request so far:       *)
(* the responses written, the status of the last one, and whether a        *)
(* rejection is still propagating.                                         *)
(***************************************************************************)
Rejection == [status |-> 0, sent |-> 0, rejected |-> TRUE]

\* a catch block that answers 500 and throws the error again
tryCatchRethrows(o) ==
    IF o.rejected THEN [status |-> 500, sent |-> o.sent + 1, rejected |-> TRUE] ELSE o

\* catch (error) { return errorResponse(res, 500, ..., error.message) }
tryCatch(o) ==
    IF o.rejected THEN [status |-> 500, sent |-> o.sent + 1, rejected |-> FALSE] ELSE o

\* Promise.resolve(fn(req, res, next)).catch(error => errorResponse(res, 500, ..))
\* (the rejections of the database are plain Errors, never ApiError)
asyncHandler(o) ==
    IF o.rejected THEN [status |-> 500, sent |-> o.sent + 1, rejected |-> FALSE] ELSE o

\* the call record of a request whose database call rejected
Failed(call) ==
    LET o == asyncHandler(tryCatch(Rejection)) IN
    [call EXCEPT !.pc = "done", !.status = o.status, !.sent = o.sent,
                 !.threw = TRUE, !.unhandled = o.rejected, !.snap = NoEvent]

\* verifyAuth, then db.collection('events').doc(eventId).get() rejects
getRejected(op, k, u, id) ==
    /\ Idle
    /\ calls[k].pc # "read"
    /\ Chain(JwtCred(u), FALSE).pass
    /\ calls' = [calls EXCEPT ![k] = Failed([NoCall EXCEPT !.op = op, !.uid = u,
                                                          !.id = id])]
    /\ UNCHANGED <<client, backend, env, session, claimRole, users, events, content, req, resp>>

\* db.collection('events').doc(eventId).update(..) rejects
updateRejected(k) ==
    /\ calls[k].pc = "read"
    /\ Answer(k) = 200
    /\ calls' = [calls EXCEPT ![k] = Failed(@)]
    /\ UNCHANGED <<client, backend, env, session, claimRole, users, events, content, req, resp>>

(***************************************************************************)
(* Concurrent POST /api/residents requests.  createResident awaits the     *)
(* query where('email', '==', email).get() and then awaits add(), which    *)
(* generates the document id; other requests run between the two.          *)
(***************************************************************************)
\* the addresses of the bodies: those of the identities, and addresses no
\* identity has
Addresses == UIDs \cup AutoIds

\* the generated ids no document has yet
FreeAutoIds == {i \in AutoIds : ~users[i].exists}

\* the POST /api/residents requests that await their add()
Adding == {k \in CallIds : calls[k].pc = "read" /\ calls[k].op = "create"}

\* request k: POST /api/residents of the admin with a complete body for
\* address `email`, up to the answer of the existence query
createRead(k, email) ==
    /\ Idle
    /\ calls[k].pc # "read"
    /\ Cardinality(Adding) < Cardinality(FreeAutoIds)
    /\ LET g == Chain(JwtCred(Admin), TRUE) IN
       calls' = [calls EXCEPT ![k] =
                    IF g.pass /\ WithEmail(email) = {}
                    THEN [NoCall EXCEPT !.pc = "read", !.op = "create", !.uid = Admin,
                                        !.id = email]
                    ELSE [NoCall EXCEPT !.pc = "done", !.op = "create", !.uid = Admin,
                                        !.id = email, !.sent = 1,
                                        !.status = IF g.pass THEN 400 ELSE g.status]]
    /\ UNCHANGED <<client, backend, env, session, claimRole, users, events, content, req, resp>>

\* db.collection('users').add(newResident)
Inserted(email) ==
    LET i == CHOOSE x \in FreeAutoIds : \A y \in FreeAutoIds : x <= y IN
    [users EXCEPT ![i] = UserRec(email, "resident", "a", "", "a", "")]

\* request k: the add() and the 201
createWrite(k) ==
    /\ calls[k].pc = "read" /\ calls[k].op = "create"
    /\ users' = Inserted(calls[k].id)
    /\ calls' = [calls EXCEPT ![k].pc = "done", ![k].status = 201, ![k].sent = 1]
    /\ UNCHANGED <<client, backend, env, session, claimRole, events, content, req, resp>>

NextCreate ==
    \/ \E k \in CallIds, e \in Addresses : createRead(k, e)
    \/ \E k \in CallIds : createWrite(k)

SpecCreate == InitStaffed /\ [][NextCreate]_vars

\* the deployment with its first event published, with any cap an admin
\* can have given it through POST /api/events and PUT /api/events/:id
InitRace ==
    /\ env = "production"
    /\ session = [u \in UIDs |->
                    [state |-> "valid", role |-> IF u = Admin THEN "admin" ELSE ""]]
    /\ claimRole = [u \in UIDs |-> IF u = Admin THEN "admin" ELSE ""]
    /\ users = [i \in UserDocIds |->
                  IF i = Admin THEN UserRec(i, "admin", "a", "", "", "")
                  ELSE IF i \in UIDs THEN UserRec(i, "resident", "", "", "", "")
                  ELSE NoRec]
    /\ \E m \in CapVals :
          events = [e \in EventIds |->
                      IF e = 1 THEN [exists |-> TRUE, attendees |-> <<>>, maxAttendees |-> m]
                      ELSE NoEvent]
    /\ content = [k \in ContentColls |-> NoDoc]
    /\ req = NoReq
    /\ resp = NoResp
    /\ calls = [k \in CallIds |-> NoCall]
    /\ client = NoClient
    /\ backend = "firebase"

\* one request of each identity at a time
NextRace ==
    \/ \E u \in UIDs, id \in EventIds : rsvpRead(u, u, id)
    \/ \E k \in CallIds : rsvpWrite(k)
    \/ \E u \in UIDs, id \in EventIds : cancelRead(u, u, id)
    \/ \E k \in CallIds : cancelWrite(k)

SpecRace == InitRace /\ [][NextRace]_vars

\* bodies of POST /api/events with a cap of one attendee and with none
OverlapBodies == {b \in EventBodies : b.maxAttendees \in {Undefined, 1}}

\* the events that exist
Published == {e \in EventIds : events[e].exists}

\* the deployment with its first event as createEvent stores it: no
\* attendees, and the cap of the body, or null for a body without one
InitOverlap ==
    /\ env = "production"
    /\ session = [u \in UIDs |->
                    [state |-> "valid", role |-> IF u = Admin THEN "admin" ELSE ""]]
    /\ claimRole = [u \in UIDs |-> IF u = Admin THEN "admin" ELSE ""]
    /\ users = [i \in UserDocIds |->
                  IF i = Admin THEN UserRec(i, "admin", "a", "", "", "")
                  ELSE IF i \in UIDs THEN UserRec(i, "resident", "", "", "", "")
                  ELSE NoRec]
    /\ \E b \in OverlapBodies :
          events = [e \in EventIds |->
                      IF e = 1
                      THEN [exists |-> TRUE, attendees |-> <<>>,
                            maxAttendees |-> IF b.maxAttendees > 0 THEN b.maxAttendees
                                             ELSE Undefined]
                      ELSE NoEvent]
    /\ content = [k \in ContentColls |-> NoDoc]
    /\ req = NoReq
    /\ resp = NoResp
    /\ calls = [k \in CallIds |-> NoCall]
    /\ client = NoClient
    /\ backend = "firebase"

\* the request a new request becomes: the first that awaits no write
NextCall ==
    {k \in CallIds : calls[k].pc # "read" /\ \A j \in 1..(k - 1) : calls[j].pc = "read"}

\* any identity behind any request: an identity can have several requests
\* under way at once
NextOverlap ==
    \/ \E k \in NextCall, u \in UIDs, id \in Published : rsvpRead(k, u, id)
    \/ \E k \in CallIds : rsvpWrite(k)
    \/ \E k \in NextCall, u \in UIDs, id \in Published : cancelRead(k, u, id)
    \/ \E k \in CallIds : cancelWrite(k)

SpecOverlap == InitOverlap /\ [][NextOverlap]_vars

\* RSVP requests with a database whose calls can reject
NextFaults ==
    \/ \E u \in UIDs, id \in EventIds : rsvpRead(u, u, id)
    \/ \E k \in CallIds : rsvpWrite(k)
    \/ \E u \in UIDs, id \in EventIds : getRejected("rsvp", u, u, id)
    \/ \E k \in CallIds : updateRejected(k)

SpecFaults == InitRace /\ [][NextFaults]_vars

(***************************************************************************)
(* Client session bridge (AuthProvider).  onAuthStateChanged calls the     *)
(* listener on every change of the provider's session; the listener does   *)
(* not wait for the call before it, so a fetchBackendUserData started by   *)
(* one event resumes after later events have been handled.                 *)
(***************************************************************************)
FreeFetches == {f \in FetchIds : client.fetch[f].pc = "free"}

\* the listener with user = null: setFirebaseUser(null), setCurrentUser(null),
\* localStorage.removeItem('authToken'), delete the default header,
\* setLoading(false)
OnSignedOut(cl) ==
    [cl EXCEPT !.firebaseUser = DevUid, !.currentUser = NoCurrentUser,
               !.authToken = FALSE, !.header = FALSE, !.loading = FALSE]

\* the listener with a user: setFirebaseUser(user), then fetchBackendUserData
\* up to its first await: setTokenLoading(true), user.getIdToken(true)
OnSignedIn(cl, u, f) ==
    [cl EXCEPT !.firebaseUser = u, !.tokenLoading = TRUE,
               !.fetch[f] = [pc |-> "token", uid |-> u]]

\* signOut(auth): the session ends and the listener runs with null, unless
\* there was no session
SignedOut(cl) ==
    IF cl.signedIn = DevUid THEN cl ELSE OnSignedOut([cl EXCEPT !.signedIn = DevUid])

\* the first event of onAuthStateChanged: the persisted session, or none
AuthStateRestored(u) ==
    /\ ~client.started
    /\ client' = IF u = DevUid
                 THEN OnSignedOut([client EXCEPT !.started = TRUE])
                 ELSE OnSignedIn([client EXCEPT !.started = TRUE, !.signedIn = u], u, 1)
    /\ UNCHANGED <<calls, backend, env, session, claimRole, users, events, content, req, resp>>

\* login / loginWithGoogle / register: the provider opens a session
login(u) ==
    /\ client.started /\ client.signedIn = DevUid
    /\ client.signIns < MaxSignIns
    /\ FreeFetches # {}
    /\ LET f == CHOOSE x \in FreeFetches : \A y \in FreeFetches : x <= y IN
       client' = OnSignedIn([client EXCEPT !.signedIn = u, !.signIns = @ + 1,
                                           !.refreshFailed = FALSE], u, f)
    /\ UNCHANGED <<calls, backend, env, session, claimRole, users, events, content, req, resp>>

\* logout called by the UI
logout ==
    /\ client.started /\ client.signedIn # DevUid
    /\ client' = SignedOut(client)
    /\ UNCHANGED <<calls, backend, env, session, claimRole, users, events, content, req, resp>>

\* user.getIdToken(true) resolves: the token is stored and attached,
\* currentUser is set from the provider's profile with role 'resident',
\* GET /api/auth/me is sent
tokenResolved(f) ==
    /\ client.fetch[f].pc = "token"
    /\ client' = [client EXCEPT
                    !.authToken = TRUE, !.header = TRUE,
                    !.currentUser = [present |-> TRUE, role |-> "resident",
                                     merged |-> FALSE],
                    !.fetch[f].pc = "me"]
    /\ UNCHANGED <<calls, backend, env, session, claimRole, users, events, content, req, resp>>

\* user.getIdToken(true) rejects: catch, await logout()
tokenRejected(f) ==
    /\ client.fetch[f].pc = "token"
    /\ client' = [SignedOut(client) EXCEPT !.refreshFailed = TRUE,
                                           !.fetch[f].pc = "logout"]
    /\ UNCHANGED <<calls, backend, env, session, claimRole, users, events, content, req, resp>>

\* the end of fetchBackendUserData and of the listener that awaited it:
\* finally setTokenLoading(false), then setLoading(false)
Finished(cl, f) ==
    [cl EXCEPT !.tokenLoading = FALSE, !.loading = FALSE, !.fetch[f] = NoFetch]

\* await logout() returns
forcedLogoutDone(f) ==
    /\ client.fetch[f].pc = "logout"
    /\ client' = Finished(client, f)
    /\ UNCHANGED <<calls, backend, env, session, claimRole, users, events, content, req, resp>>

\* setCurrentUser(prev => ({ ...prev!, role: userData.role || 'resident',
\* ...userData })): prev may be null by now
Merged(cu, role) == [present |-> TRUE, role |-> role, merged |-> TRUE]

\* GET /api/auth/me answers; ok: 200 { success: true, data: the record }
meResolved(f, ok) ==
    /\ client.fetch[f].pc = "me"
    /\ LET u == client.fetch[f].uid IN
       /\ ok => users[u].exists
       /\ client' = Finished(IF ok
                             THEN [client EXCEPT !.currentUser = Merged(@, users[u].role)]
                             ELSE client, f)
    /\ UNCHANGED <<calls, backend, env, session, claimRole, users, events, content, req, resp>>

NextClient ==
    \/ \E u \in {DevUid} \cup UIDs : AuthStateRestored(u)
    \/ \E u \in UIDs : login(u)
    \/ logout
    \/ \E f \in FetchIds : tokenResolved(f)
    \/ \E f \in FetchIds : tokenRejected(f)
    \/ \E f \in FetchIds : forcedLogoutDone(f)
    \/ \E f \in FetchIds, ok \in BOOLEAN : meResolved(f, ok)

SpecClient == InitStaffed /\ [][NextClient]_vars

\* promises settle: the steps that resume a fetchBackendUserData are taken
FairClient ==
    \A f \in FetchIds :
        /\ WF_vars(tokenResolved(f) \/ tokenRejected(f))
        /\ WF_vars(forcedLogoutDone(f))
        /\ WF_vars(\E ok \in BOOLEAN : meResolved(f, ok))

SpecClientFair == SpecClient /\ FairClient

(***************************************************************************)
(* Properties of the authorization middleware                              *)
(***************************************************************************)
\* routes whose first gate is verifyAuth
VerifyAuthRoutes == {"GET /api/env"}

\* routes whose chain is verifyAuth, verifyAdmin
AdminOnlyRoutes == {"GET /api/env"}

AdminRoles == {"admin", "super_admin"}

\* C1: role freshness.  The role a provider-verified request is authorized
\* with is the role stored in the identity's Application User Record at the
\* time of the request; in particular an admin-only request of an identity
\* whose record does not hold an admin role is answered 403.
C1_RoleFreshness ==
    (req.route \in VerifyAuthRoutes \cup {"authenticateUser"}
        /\ resp.verifier /\ resp.user.present /\ users[resp.user.uid].exists)
    => /\ resp.user.role = users[resp.user.uid].role
       /\ (users[resp.user.uid].role \notin AdminRoles => resp.status = 403)

\* C2: fail-closed composition.  The Require-Admin gate, run on a request
\* to which no identity context was attached, answers 401 or 403 and does
\* not call the next handler.
C2_FailClosed ==
    (req.route \in {"verifyAdmin", "requireAdmin"} /\ ~resp.user.present)
    => (resp.status \in {401, 403} /\ ~resp.handler)

C2_Witness ==
    req.route = "verifyAdmin" /\ ~resp.user.present /\ resp.status = 401

\* C3: the Require-Admin gate of the routes (verifyAdmin) lets a request
\* through if and only if its context role is admin or super_admin, and
\* answers 403 without calling the handler for every other role.
C3_AdminGateRoles ==
    (req.route \in AdminOnlyRoutes \cup {"verifyAdmin"} /\ resp.user.present)
    => /\ resp.handler <=> resp.user.role \in AdminRoles
       /\ (resp.user.role \notin AdminRoles => resp.status = 403)

\* C4: on a route guarded by verifyAuth, a request whose Authorization
\* header is absent or does not start with 'Bearer ' is answered 401 with
\* success:false; neither the token verifier nor the handler is invoked.
C4_NoBearer401 ==
    (req.route \in VerifyAuthRoutes /\ req.cred.hdr # "bearer")
    => (resp.status = 401 /\ ~resp.success /\ ~resp.verifier /\ ~resp.handler)

C4_Witness ==
    req.route \in VerifyAuthRoutes /\ req.cred.hdr = "other" /\ resp.status = 401

\* C5: when token verification fails, the Require-Authenticated gate
\* answers 401 with the error envelope and does not reach the handler.
C5_VerifyFailure401 ==
    (req.route \in VerifyAuthRoutes \cup {"authenticateUser"}
        /\ resp.verifier /\ ~resp.user.present)
    => (resp.status = 401 /\ ~resp.success /\ resp.message /\ ~resp.handler)

\* C6: outside development mode (NODE_ENV anything else, or unset) a token
\* starting with 'simulated_token_' yields no identity context, and the
\* auth endpoints hand no such token out.
C6_BypassOnlyInDevelopment ==
    env # "development"
    => /\ (req.cred.tok = "simulated" => (~resp.user.present /\ ~resp.handler))
       /\ resp.token # "simulated"

C6_Witness ==
    env = "unset" /\ req.route \in VerifyAuthRoutes /\ req.cred.tok = "simulated"
    /\ resp.status = 403

(***************************************************************************)
(* Properties of the controllers                                           *)
(***************************************************************************)
WriteRoutes ==
    {PostRoute[k] : k \in ContentColls} \cup {PutRoute[k] : k \in ContentColls}
    \cup {DeleteRoute[k] : k \in ContentColls}
    \cup {"POST /api/events", "PUT /api/events/:id", "DELETE /api/events/:id",
          "POST /api/residents", "DELETE /api/residents/:id"}

\* the request answered in this step was made without an admin role
NonAdminRequest == ~(resp'.user.present /\ resp'.user.role \in AdminRoles)

\* C7: write admin-only.  A create, update or delete request on events,
\* documents, gallery images, announcements or residents (create, delete)
\* whose authenticated role is not an admin role is answered 401 or 403
\* and leaves every collection unchanged.
C7_WritesAdminOnly ==
    [][(req'.route \in WriteRoutes /\ NonAdminRequest)
       => (resp'.status \in {401, 403} /\ ~resp'.handler
           /\ users' = users /\ events' = events /\ content' = content)]_vars

C7_Witness ==
    req.route = "POST /api/events" /\ req.body.title = "a"
    /\ resp.user.present /\ resp.user.role = "user" /\ resp.status = 403

\* C8: ownership boundary on PUT /api/residents/:id.  A non-admin identity
\* updating another identity's record is answered 403 and the record is
\* unchanged; updating its own record it is answered 200 and the display
\* name and phone of the body are stored.
C8_OwnershipBoundary ==
    [][(req'.route = "PUT /api/residents/:id"
           /\ resp'.user.present /\ resp'.user.role \notin AdminRoles)
       => /\ resp'.user.uid # req'.id => (resp'.status = 403 /\ users' = users)
          /\ (resp'.user.uid = req'.id /\ users[req'.id].exists)
             => /\ resp'.status = 200
                /\ req'.body.name # "" => users'[req'.id].displayName = req'.body.name
                /\ req'.body.phoneNumber # ""
                   => users'[req'.id].phoneNumber = req'.body.phoneNumber]_vars

C8_Witness ==
    req.route = "PUT /api/residents/:id" /\ req.body.name = "a"
    /\ resp.user.present /\ resp.user.role = "user" /\ resp.user.uid # req.id
    /\ users[req.id].exists /\ users[req.id].displayName = "" /\ resp.status = 403

\* C9: role mutation is admin-only.  A PUT /api/residents/:id or
\* PUT /api/auth/me request by a non-admin identity, whatever its body,
\* leaves the role stored in every Application User Record as it was.
C9_RoleUnchangedByNonAdmin ==
    [][(req'.route \in {"PUT /api/residents/:id", "PUT /api/auth/me"}
           /\ resp'.user.present /\ resp'.user.role \notin AdminRoles)
       => \A i \in UserDocIds :
             users'[i].exists = users[i].exists /\ users'[i].role = users[i].role]_vars

C9_Witness ==
    req.route = "PUT /api/residents/:id" /\ req.body.role = "admin"
    /\ resp.user.present /\ resp.user.role = "user" /\ resp.user.uid = req.id
    /\ resp.status = 200 /\ users[req.id].role = "resident"

\* the attendee set of an event
AttendeeSet(e) == {events[e].attendees[i] : i \in DOMAIN events[e].attendees}

\* C10: idempotent RSVP guard.  POST /api/events/:id/rsvp by an identity
\* that is already in the event's attendee set is answered 400 and the
\* attendee list is unchanged.
C10_DuplicateRsvpRejected ==
    [][(req'.route = "POST /api/events/:id/rsvp" /\ resp'.user.present
           /\ events[req'.id].exists /\ resp'.user.uid \in AttendeeSet(req'.id))
       => (resp'.status = 400 /\ events' = events)]_vars

C10_Witness ==
    req.route = "POST /api/events/:id/rsvp" /\ resp.user.present
    /\ resp.user.uid \in AttendeeSet(req.id) /\ resp.status = 400
    /\ events[req.id].maxAttendees = Undefined /\ Len(events[req.id].attendees) = 2

\* the RSVP answered in this step came from an identity outside the set
FurtherRsvp ==
    /\ req'.route = "POST /api/events/:id/rsvp" /\ resp'.user.present
    /\ events[req'.id].exists /\ resp'.user.uid \notin AttendeeSet(req'.id)

\* C11: capacity boundary, one request at a time.  For an event with
\* maxAttendees = N that has N attendees, an RSVP by a further identity is
\* answered 400 and the list is unchanged; with N - 1 attendees (after a
\* cancel) it is answered 200 and the list has N members, so that the next
\* one is refused again.
C11_CapacityBoundary ==
    [][(FurtherRsvp /\ events[req'.id].maxAttendees # Undefined)
       => LET e == events[req'.id] IN
          /\ Len(e.attendees) = e.maxAttendees
             => (resp'.status = 400 /\ events' = events)
          /\ Len(e.attendees) = e.maxAttendees - 1
             => (resp'.status = 200
                 /\ Len(events'[req'.id].attendees) = e.maxAttendees)]_vars

(***************************************************************************)
(* Properties of concurrent RSVP and cancel requests                       *)
(***************************************************************************)
\* C12: strict capacity under concurrency.  In every interleaving of RSVP
\* requests whose read and write are separate steps, an event with
\* maxAttendees = N never has more than N stored attendees.
C12_CapRespected ==
    \A e \in EventIds :
        (events[e].exists /\ events[e].maxAttendees # Undefined)
        => Cardinality(AttendeeSet(e)) <= events[e].maxAttendees

\* every request has been answered
AllCompleted == \A k \in CallIds : calls[k].pc # "read"

\* C13: no lost updates.  Once every request has completed, an identity
\* whose last request was an RSVP answered 200 is in the stored attendee
\* set, and one whose last request was a cancel answered 200 is not.
C13_NoLostUpdate ==
    AllCompleted
    => \A k \in CallIds :
          (calls[k].pc = "done" /\ calls[k].status = 200)
          => (calls[k].op = "rsvp" <=> calls[k].uid \in AttendeeSet(calls[k].id))

\* C27: for every event that has a maximum-attendee cap (0 included), the
\* number of attendees is at most the cap, in every state reached by
\* createEvent, updateEvent, RSVP and cancel requests handled one at a time.
C27_CapInvariant ==
    \A e \in EventIds :
        (events[e].exists /\ events[e].maxAttendees # Undefined)
        => Len(events[e].attendees) <= events[e].maxAttendees

\* C26: the attendee list of an event never holds the same identity id
\* twice, in every state reachable from an event as createEvent stores it
\* through any interleaving of the reads and writes of RSVP and cancel
\* requests, several requests of one identity at once included.
C26_NoDuplicateAttendees ==
    \A e \in EventIds :
        \A i, j \in DOMAIN events[e].attendees :
            i # j => events[e].attendees[i] # events[e].attendees[j]

\* an RSVP of an identity has been stored and answered 200 while another
\* RSVP of the same identity, which read the list before, awaits its write
C26_Witness ==
    \E k, l \in CallIds :
        /\ k # l /\ calls[k].uid = calls[l].uid /\ calls[k].id = calls[l].id
        /\ calls[k].op = "rsvp" /\ calls[l].op = "rsvp"
        /\ calls[l].pc = "done" /\ calls[l].status = 200
        /\ calls[k].pc = "read" /\ ~Includes(calls[k].snap.attendees, calls[k].uid)
        /\ Includes(events[calls[k].id].attendees, calls[k].uid)

(***************************************************************************)
(* Properties of the responses                                             *)
(***************************************************************************)
\* C14: envelope uniformity.  Every response with a 2xx status carries
\* success: true and a data field; every response with a 4xx or 5xx status
\* carries success: false and a message field.
C14_EnvelopeUniform ==
    /\ resp.status \in 200..299 => (resp.json /\ resp.success /\ resp.data)
    /\ resp.status >= 400 => (resp.json /\ ~resp.success /\ resp.message)

\* the request answered in this step had a verified token of an identity
\* that has no Application User Record
FirstAuthenticatedRequest ==
    /\ req'.route \in {"GET /api/env", "GET /api/auth/me"}
    /\ resp'.user.present /\ resp'.user.uid \in UIDs
    /\ ~users[resp'.user.uid].exists

\* C19: lazy default record.  A request with a valid token of an identity
\* that has no Application User Record creates a record with role
\* 'resident' and is authorized with role 'resident'.
C19_LazyDefaultRecord ==
    [][FirstAuthenticatedRequest
       => /\ users'[resp'.user.uid].exists
          /\ users'[resp'.user.uid].role = "resident"
          /\ resp'.user.role = "resident"]_vars

PublicRoutes == {"GET /health", "GET /api", "GET /api/test/firebase"}

Loading == client.loading \/ client.tokenLoading

Anonymous == ~client.currentUser.present /\ ~Loading

\* C15: ordering.  Between a sign-in event and the completion of the merge
\* with the record of GET /api/auth/me, the current user handed to the UI
\* carries no role.
C15_NoRoleBeforeMerge ==
    (client.currentUser.present /\ client.currentUser.role # "")
    => client.currentUser.merged

\* C16: sign-out.  Once the provider has no session and its sign-out event
\* has been handled, the current user is null, no auth token is stored and
\* no Authorization header is attached to API calls.
C16_SignOutAnonymous ==
    (client.started /\ client.signedIn = DevUid)
    => (~client.currentUser.present /\ ~client.authToken /\ ~client.header)

Quiescent == \A f \in FetchIds : client.fetch[f].pc = "free"

\* C17: token refresh failure.  After user.getIdToken(true) has rejected,
\* the bridge reaches anonymous, and it does not come to rest with a
\* current user.
C17_RefreshFailureAnonymous ==
    /\ client.refreshFailed ~> Anonymous
    /\ []((client.refreshFailed /\ Quiescent) => Anonymous)

\* the sign-out event has been handled and no sign-in event has come since
SignedOutHandled ==
    client.started /\ client.signedIn = DevUid
    /\ ~client.currentUser.present /\ ~client.header

\* C25: client session bridge under interleaving.  Once the bridge has
\* handled a sign-out event, every step up to the next sign-in event leaves
\* the current user null and the Authorization header unset, the steps that
\* complete a token fetch or a GET /api/auth/me of the previous session
\* included.
C25_StaysSignedOut ==
    [][(SignedOutHandled /\ client'.signedIn = DevUid)
       => (~client'.currentUser.present /\ ~client'.header)]_vars

(***************************************************************************)
(* Resident profiles: who may read and write them, and which fields        *)
(***************************************************************************)
OwnerOrAdminRoutes == {"GET /api/residents/:id", "PUT /api/residents/:id"}

\* C21: owner-or-admin check on GET and PUT /api/residents/:id.  A request
\* with an identity context is let through (not answered 403) if and only
\* if the context identity id equals :id or the context role is admin or
\* super_admin; a refused request neither reads nor writes the record.
C21_OwnerOrAdmin ==
    [][(req'.route \in OwnerOrAdminRoutes /\ resp'.user.present)
       => /\ resp'.status # 403
             <=> (resp'.user.uid = req'.id \/ resp'.user.role \in AdminRoles)
          /\ resp'.status = 403 => (users' = users /\ ~resp'.data)]_vars

\* C23: privileged profile fields.  A PUT /api/residents/:id request
\* changes the flatNumber or blockNumber of a record only when its context
\* role is an admin role; a successful request of a non-admin owner leaves
\* both as they were, whatever its body.
C23_UnitFieldsAdminOnly ==
    [][(req'.route = "PUT /api/residents/:id" /\ resp'.user.present)
       => \A i \in UserDocIds :
             (users'[i].flatNumber # users[i].flatNumber
                 \/ users'[i].blockNumber # users[i].blockNumber)
             => resp'.user.role \in AdminRoles]_vars

C23_Witness ==
    req.route = "PUT /api/residents/:id"
    /\ req.body.flatNumber = "a" /\ req.body.blockNumber = "a"
    /\ resp.user.present /\ resp.user.role \notin AdminRoles /\ resp.user.uid = req.id
    /\ resp.status = 200
    /\ users[req.id].flatNumber = "" /\ users[req.id].blockNumber = ""

\* C24: cancel RSVP, requests executed one at a time.
\* DELETE /api/events/:id/rsvp by an identity that is not in the attendee
\* set of the event is answered 400 and leaves the events as they were; by
\* an identity that is in the set it is answered 200, takes exactly that
\* identity out and leaves every other attendee in place, in order.
C24_CancelRsvp ==
    [][(req'.route = "DELETE /api/events/:id/rsvp"
           /\ resp'.user.present /\ events[req'.id].exists)
       => LET uid == resp'.user.uid
              before == events[req'.id].attendees
              after == events'[req'.id].attendees IN
          /\ uid \notin AttendeeSet(req'.id) => (resp'.status = 400 /\ events' = events)
          /\ uid \in AttendeeSet(req'.id)
             => /\ resp'.status = 200
                /\ Len(after) = Len(before) - 1
                /\ \A i \in DOMAIN after : after[i] # uid
                /\ \A i, j \in DOMAIN before :
                      (i < j /\ before[i] # uid /\ before[j] # uid)
                      => \E k, l \in DOMAIN after :
                            k < l /\ after[k] = before[i] /\ after[l] = before[j]
                /\ \A i \in DOMAIN before :
                      before[i] # uid => \E k \in DOMAIN after : after[k] = before[i]
                /\ \A e \in EventIds \ {req'.id} : events'[e] = events[e]]_vars

C24_Witness ==
    req.route = "DELETE /api/events/:id/rsvp" /\ resp.status = 200
    /\ resp.user.present /\ events[req.id].exists
    /\ events[req.id].attendees # <<>>
    /\ resp.user.uid \notin AttendeeSet(req.id)

(***************************************************************************)
(* NotFound                                                                *)
(***************************************************************************)
ResidentIdRoutes ==
    {"GET /api/residents/:id", "PUT /api/residents/:id", "DELETE /api/residents/:id"}

EventIdRoutes ==
    {"PUT /api/events/:id", "DELETE /api/events/:id",
     "POST /api/events/:id/rsvp", "DELETE /api/events/:id/rsvp"}

\* the request `r`, which the middleware let through as `user`, names a
\* resource that is not in the database
NamesMissing(r, user) ==
    \/ r.route \in ResidentIdRoutes /\ ~users[r.id].exists
    \/ r.route \in EventIdRoutes /\ ~events[r.id].exists
    \/ \E k \in ContentColls : r.route \in {PutRoute[k], DeleteRoute[k]} /\ ~content[k].exists
    \/ r.route = "PUT /api/auth/me" /\ ~HasRecord(user.uid)

\* C22: NotFound.  An authorized read-by-id, update, delete, RSVP or cancel
\* request naming a resource id that is not in the database, and a
\* PUT /api/auth/me of an identity that has no user record, is answered 404
\* and writes nothing to the database.
C22_NotFound ==
    [][(resp'.handler /\ resp'.status # 403 /\ NamesMissing(req', resp'.user))
       => (resp'.status = 404
           /\ users' = users /\ events' = events /\ content' = content)]_vars

(***************************************************************************)
(* The public auth endpoints                                               *)
(***************************************************************************)
PublicAuthRoutes ==
    {"POST /api/auth/register", "POST /api/auth/login",
     "POST /api/auth/google-auth", "POST /api/auth/forgot-password"}

\* C28: a request to a public auth endpoint (register, login, google-auth,
\* forgot-password), sent without a bearer token and with any body, leaves
\* the role of every existing Application User Record as it was, deletes
\* none, and creates only records whose role is 'resident'.
C28_PublicAuthKeepsRoles ==
    [][(req'.route \in PublicAuthRoutes)
       => \A i \in UserDocIds :
             /\ users[i].exists => (users'[i].exists /\ users'[i].role = users[i].role)
             /\ (~users[i].exists /\ users'[i].exists) => users'[i].role = "resident"]_vars

C28_Witness ==
    /\ req.route = "POST /api/auth/google-auth" /\ req.body.role = "admin"
    /\ resp.status = 200
    /\ users[req.body.uid].exists /\ users[req.body.uid].role = "resident"
    /\ \E i \in UIDs : users[i].exists /\ users[i].role = "admin"

(***************************************************************************)
(* The mock identity provider                                              *)
(***************************************************************************)
\* C29: outside development mode a request gets an identity context only
\* for a token the real identity provider verified; in particular a server
\* that started on the mock provider does not accept the mock users'
\* tokens and ids ('admin-token', 'resident-token', 'admin-user-id',
\* 'resident-user-id') as bearer tokens.
C29_NoMockIdentities ==
    (env # "development" /\ req.cred.hdr = "bearer" /\ resp.user.present)
    => (backend = "firebase" /\ resp.verifier /\ req.cred \notin MockCreds)

(***************************************************************************)
(* Concurrent createResident requests                                      *)
(***************************************************************************)
\* C30: email uniqueness through createResident.  In every interleaving
\* of POST /api/residents requests whose existence query and insert are
\* separate steps, no two documents createResident has added hold the same
\* email, and a request that is answered while its address has a record
\* already is answered 400 and inserts nothing.
C30_EmailUnique ==
    [][/\ \A i, j \in AutoIds :
             (i # j /\ users'[i].exists /\ users'[j].exists)
                 => users'[i].email # users'[j].email
       /\ \A k \in CallIds :
             (/\ calls'[k] # calls[k]
              /\ calls'[k].op = "create" /\ calls'[k].pc = "done"
              /\ WithEmail(calls'[k].id) # {})
                 => (calls'[k].status = 400 /\ users' = users)]_vars

====
